---- MODULE Spec2Model ----
(***************************************************************************)
(* Model of the train-journey search of ChercheTrajet.py: the duration     *)
(* arithmetic (Neo4jGraph.calculate_duration, calculate_total_time), the   *)
(* two timetable queries (get_premiernodes, get_neighbors), the search     *)
(* (dijkstra) and the journey modes of main.                               *)
(*                                                                         *)
(* Dates are the strings "dd/mm/yyyy" and times the strings "HH:MM" of the *)
(* source, kept as the tuples <<dd, mm, yyyy>> and <<HH, MM>> of their     *)
(* zero-padded fields: the database compares them as strings (field by     *)
(* field, left to right) and Python parses them to instants (strptime).    *)
(* A missing value (None / null) is the empty tuple.                       *)
(***************************************************************************)
EXTENDS Integers, Sequences, FiniteSets, TLC

VARIABLES
    store,          \* the MOOVE relations of the database: a set of connections
    scan_desc,      \* the order in which the database returns rows with equal sort keys
    user_input,     \* what get_user_input returned: mode, stations, date, times
    pc,             \* where the program is
    premier_nodes,  \* main: the candidate first legs
    cand,           \* main: index of the candidate being processed (loop variable)
    nodes,          \* dijkstra: the Node objects created and kept (arena, by index)
    open_set,       \* dijkstra: list of node indices
    closed_set,     \* dijkstra: set of station names
    path,           \* result of the last dijkstra call: None or list of nodes
    Liste,          \* main (arrival time): the paths found, each with its score
    L,              \* main (arrival time): the scores
    reported,       \* main: the journeys printed so far
    failed,         \* main: candidates printed as "Aucun chemin trouve"
    outcome,        \* main: how the mode ended
    dur_args,       \* duration calculator harness: the four arguments
    dur_result,     \* duration calculator harness: the value returned
    calls,          \* repeated search: what the earlier calls of dijkstra returned
    tour            \* main (tour_de_france): current_city, current_date, i, stages printed

vars == <<store, scan_desc, user_input, pc, premier_nodes, cand, nodes, open_set,
          closed_set, path, Liste, L, reported, failed, outcome, dur_args, dur_result, calls, tour>>

search_vars == <<store, scan_desc, user_input, premier_nodes, cand, nodes, open_set,
                 closed_set, path, Liste, L, reported, failed, outcome, calls, tour>>

-----------------------------------------------------------------------------
(* Values *)

None == <<>>

HM(h, m) == <<h, m>>

DMY(d, m, y) == <<d, m, y>>

(* Comparison of two equally long zero-padded strings, as tuples of fields. *)
RECURSIVE StrLess(_, _)
StrLess(a, b) ==
    IF a = <<>> \/ b = <<>> THEN FALSE
    ELSE IF Head(a) # Head(b) THEN Head(a) < Head(b)
    ELSE StrLess(Tail(a), Tail(b))

StrGeq(a, b) == ~StrLess(a, b)

-----------------------------------------------------------------------------
(* datetime: an instant is the number of minutes since 01/01/0001 00:00 *)

MinutesPerDay == 24 * 60

IsLeap(y) == (y % 4 = 0) /\ ((y % 100 # 0) \/ (y % 400 = 0))

DaysInMonth(m, y) ==
    IF m = 2 THEN (IF IsLeap(y) THEN 29 ELSE 28)
    ELSE IF m \in {4, 6, 9, 11} THEN 30 ELSE 31

RECURSIVE DaysBeforeMonth(_, _)
DaysBeforeMonth(m, y) ==
    IF m <= 1 THEN 0 ELSE DaysBeforeMonth(m - 1, y) + DaysInMonth(m - 1, y)

DaysBeforeYear(y) ==
    ((y - 1) * 365) + ((y - 1) \div 4) - ((y - 1) \div 100) + ((y - 1) \div 400)

ToOrdinal(date) == DaysBeforeYear(date[3]) + DaysBeforeMonth(date[2], date[3]) + date[1]

(* datetime.strptime(date + " " + time, "%d/%m/%Y %H:%M") *)
Strptime(date, time) == (ToOrdinal(date) * MinutesPerDay) + (time[1] * 60) + time[2]

(* datetime.date(), as the day's ordinal *)
DateOf(instant) == instant \div MinutesPerDay

(* timedelta(days=n) *)
Days(n) == n * MinutesPerDay

-----------------------------------------------------------------------------
(* Neo4jGraph.calculate_duration *)

(* a slip: the arrival left as it is, the test of line 143 left out *)
ArrivalUnclamped(arrival_datetime, next_train_departure) == arrival_datetime

(* lines 143-144: an arrival after next_train_departure is set to it *)
ArrivalClamped(arrival_datetime, next_train_departure) ==
    IF arrival_datetime > next_train_departure
    THEN next_train_departure
    ELSE arrival_datetime

calculate_duration(departure_date, departure_time, arrival_date, arrival_time) ==
    IF departure_time = None \/ arrival_time = None THEN 0
    ELSE LET departure_datetime == Strptime(departure_date, departure_time)
             arrival_parsed == Strptime(arrival_date, arrival_time)
             day_difference == DateOf(arrival_parsed) - DateOf(departure_datetime)
             arrival_shifted == IF day_difference < 0
                                THEN arrival_parsed + Days(-day_difference)
                                ELSE arrival_parsed
             next_train_departure == departure_datetime + Days(day_difference)
             arrival_datetime == ArrivalClamped(arrival_shifted, next_train_departure)
         IN arrival_datetime - departure_datetime

(* Neo4jGraph.calculate_total_time *)
calculate_total_time(departure_date, departure_time, arrival_date, arrival_time) ==
    Strptime(arrival_date, arrival_time) - Strptime(departure_date, departure_time)

-----------------------------------------------------------------------------
(* class Node *)

(* float('inf'), the distance of a Node just constructed; a finite distance d
   is <<d>> *)
Inf == <<>>

Fin(d) == <<d>>

DistLess(a, b) == IF a = Inf THEN FALSE ELSE IF b = Inf THEN TRUE ELSE a[1] < b[1]

(* Node.__init__; parent is the index of the parent Node in nodes, 0 for None *)
Node(name, departure_date, departure_time, arrival_date, arrival_time, train_number) ==
    [name |-> name, parent |-> 0, distance |-> Inf,
     departure_date |-> departure_date, departure_time |-> departure_time,
     arrival_date |-> arrival_date, arrival_time |-> arrival_time,
     train_number |-> train_number]

-----------------------------------------------------------------------------
(* The database: (n:Gare)-[r:MOOVE]->(neighbor:Gare) *)

PARIS == "PARIS MONTPARNASSE"
RENNES == "RENNES"
NANTES == "NANTES"

Stations == {PARIS, RENNES, NANTES}

Moove(id, origin, dest, datedepart, hdepart, datearrive, harrive, numtrain) ==
    [id |-> id, origin |-> origin, dest |-> dest, datedepart |-> datedepart,
     hdepart |-> hdepart, datearrive |-> datearrive, harrive |-> harrive,
     numtrain |-> numtrain]

D3105 == DMY(31, 5, 2024)
D0106 == DMY(1, 6, 2024)
D0206 == DMY(2, 6, 2024)
D0306 == DMY(3, 6, 2024)

(* The relations a timetable is drawn from. *)
Catalogue ==
    { Moove(1, PARIS, RENNES, D0106, HM(8, 30), D0106, HM(10, 15), "8001"),
      Moove(2, PARIS, NANTES, D0106, HM(9, 0), D0106, HM(10, 15), "8002"),
      Moove(3, PARIS, NANTES, D0106, HM(8, 30), D0106, HM(9, 30), "8003"),
      Moove(4, NANTES, RENNES, D0106, HM(9, 0), D0106, HM(10, 0), "8004"),
      Moove(5, PARIS, RENNES, D0106, HM(23, 50), D0106, HM(0, 20), "8005"),
      Moove(6, NANTES, RENNES, D0206, HM(9, 30), D0206, HM(11, 30), "8002"),
      Moove(7, RENNES, PARIS, D0206, HM(12, 0), D0206, HM(14, 0), "8007"),
      Moove(8, PARIS, RENNES, D0206, HM(7, 0), D0206, HM(9, 0), "8008"),
      Moove(9, NANTES, RENNES, D0106, HM(10, 30), D0106, None, "8009"),
      Moove(10, PARIS, NANTES, D3105, HM(22, 0), D0106, HM(0, 30), "8010"),
      Moove(11, PARIS, NANTES, D0106, HM(20, 0), D0206, HM(8, 0), "8011"),
      Moove(12, NANTES, RENNES, D0206, HM(20, 0), D0306, HM(6, 0), "8012"),
      Moove(13, PARIS, RENNES, D0306, HM(7, 0), D0306, HM(7, 45), "8013"),
      Moove(14, PARIS, NANTES, D0106, HM(9, 30), None, HM(10, 30), "8014"),
      Moove(15, PARIS, RENNES, D0106, None, D0106, HM(11, 0), "8015") }

(* ORDER BY r.datedepart, r.hdepart: both are strings. Rows with equal keys come
   in the order the database scans them: by ascending or by descending id. *)
RowBefore(a, b, desc) ==
    \/ StrLess(a.datedepart, b.datedepart)
    \/ /\ a.datedepart = b.datedepart
       /\ \/ StrLess(a.hdepart, b.hdepart)
          \/ /\ a.hdepart = b.hdepart
             /\ IF desc THEN a.id > b.id ELSE a.id < b.id

RECURSIVE OrderBy(_, _)
OrderBy(rows, desc) ==
    IF rows = {} THEN <<>>
    ELSE LET first == CHOOSE r \in rows : \A q \in rows \ {r} : RowBefore(r, q, desc)
         IN <<first>> \o OrderBy(rows \ {first}, desc)

(* a slip: the arrival time not looked at *)
IncompleteButArrivalTime(record) ==
    \/ record.datedepart = None
    \/ record.hdepart = None
    \/ record.datearrive = None

(* the records' check "is None" on the four date and time fields *)
Incomplete(record) ==
    \/ record.datedepart = None
    \/ record.hdepart = None
    \/ record.datearrive = None
    \/ record.harrive = None

(* Neo4jGraph.get_premiernodes: the query matches r.datedepart = $departure_date
   and r.hdepart >= $departure_time (a null property matches nothing); the Node's
   name is n.nom, the departure station *)
get_premiernodes(db, desc, node_name, departure_date, departure_time) ==
    IF departure_date = None \/ departure_time = None THEN <<>>
    ELSE LET rows == { r \in db : /\ r.origin = node_name
                                  /\ r.datedepart # None /\ r.hdepart # None
                                  /\ r.datedepart = departure_date
                                  /\ StrGeq(r.hdepart, departure_time) }
             result == OrderBy(rows, desc)
             kept == SelectSeq(result, LAMBDA record : ~Incomplete(record))
         IN [i \in 1..Len(kept) |->
                Node(kept[i].origin, kept[i].datedepart, kept[i].hdepart,
                     kept[i].datearrive, kept[i].harrive, kept[i].numtrain)]

(* a slip: a train leaving at the very instant kept *)
LeavesAtOrAfter(next_train_departure, current_arrival) ==
    next_train_departure >= current_arrival

(* line 110: next_train_departure > current_arrival *)
LeavesAfter(next_train_departure, current_arrival) ==
    next_train_departure > current_arrival

(* Neo4jGraph.get_neighbors: the query matches r.datedepart >= $departure_date and
   r.hdepart >= $departure_time, each a comparison of strings; the generator yields
   the pairs (neighbor, neighbor_distance) of the rows that leave strictly later *)
get_neighbors(db, desc, node_name, departure_date, departure_time) ==
    LET rows == { r \in db : /\ r.origin = node_name
                             /\ r.datedepart # None /\ r.hdepart # None
                             /\ StrGeq(r.datedepart, departure_date)
                             /\ StrGeq(r.hdepart, departure_time) }
        result == OrderBy(rows, desc)
        current_arrival == Strptime(departure_date, departure_time)
        kept == SelectSeq(result, LAMBDA record :
                    /\ ~Incomplete(record)
                    /\ LeavesAfter(Strptime(record.datedepart, record.hdepart),
                                   current_arrival))
    IN [i \in 1..Len(kept) |->
           [neighbor |-> Node(kept[i].dest, kept[i].datedepart, kept[i].hdepart,
                              kept[i].datearrive, kept[i].harrive, kept[i].numtrain),
            neighbor_distance |-> calculate_duration(departure_date, departure_time,
                                     kept[i].datearrive, kept[i].harrive)]]

-----------------------------------------------------------------------------
(* dijkstra *)

Range(s) == { s[i] : i \in 1..Len(s) }

(* what dijkstra returns: None, or a list of Nodes *)
NoPath == [kind |-> "None", items |-> <<>>]

PathOf(items) == [kind |-> "list", items |-> items]

(* the truth value of a returned path: "if path:" *)
Truthy(p) == p.kind = "list" /\ p.items # <<>>

(* min(open_set, key=lambda x: x.distance): the first of the smallest *)
MinOpen(ns, open) ==
    CHOOSE i \in 1..Len(open) :
        /\ \A j \in 1..Len(open) : ~DistLess(ns[open[j]].distance, ns[open[i]].distance)
        /\ \A j \in 1..(i - 1) : DistLess(ns[open[i]].distance, ns[open[j]].distance)

(* open_set.remove(current_node) *)
RemoveAt(s, i) == SubSeq(s, 1, i - 1) \o SubSeq(s, i + 1, Len(s))

(* the walk along the parents, reversed: path[::-1] *)
RECURSIVE BuildPath(_, _)
BuildPath(ns, id) ==
    IF id = 0 THEN <<>> ELSE Append(BuildPath(ns, ns[id].parent), ns[id])

(* a slip: the neighbor's own distance, the way already made left out *)
TentativeDistanceNoSum(current_distance, neighbor_distance) ==
    Fin(neighbor_distance)

(* tentative_distance = current_node.distance + neighbor_distance *)
TentativeDistance(current_distance, neighbor_distance) ==
    Fin(current_distance[1] + neighbor_distance)

(* the body of "for neighbor, neighbor_distance in graph.get_neighbors(...)" for one
   neighbor; acc holds nodes and open_set. The neighbor is a Node just made by
   get_neighbors: its distance is inf and it is no element of open_set (Node
   defines no __eq__, "in" compares identities), its index being a new one. *)
Relax(acc, current, closed, yielded) ==
    LET neighbor == yielded.neighbor
        id == Len(acc.nodes) + 1
        tentative_distance ==
            TentativeDistance(acc.nodes[current].distance, yielded.neighbor_distance)
    IN IF neighbor.name \in closed THEN acc
       ELSE IF DistLess(tentative_distance, neighbor.distance)
       THEN LET updated == [neighbor EXCEPT !.parent = current,
                                            !.distance = tentative_distance]
            IN IF id \notin Range(acc.open_set)
               THEN [nodes |-> Append(acc.nodes, updated),
                     open_set |-> Append(acc.open_set, id)]
               ELSE [acc EXCEPT !.nodes = Append(acc.nodes, updated)]
       ELSE IF id \in Range(acc.open_set)
            THEN IF DistLess(tentative_distance, acc.nodes[id].distance)
                 THEN [acc EXCEPT !.nodes[id].distance = tentative_distance,
                                  !.nodes[id].parent = current]
                 ELSE acc
            ELSE acc

RECURSIVE Expand(_, _, _, _)
Expand(acc, current, closed, neighbors) ==
    IF neighbors = <<>> THEN acc
    ELSE Expand(Relax(acc, current, closed, Head(neighbors)), current, closed,
                Tail(neighbors))

(* lines 187-189: the start node, distance 0, alone in open_set *)
StartNode(start_node_name, departure_date, departure_time, arrival_date, arrival_time) ==
    [Node(start_node_name, departure_date, departure_time, arrival_date,
          arrival_time, "") EXCEPT !.distance = Fin(0)]

(* a slip: only a node reached by a train can end the search *)
IsGoalReached(current_node, goal_node_name) ==
    current_node.name = goal_node_name /\ current_node.parent # 0

(* whether the node taken from open_set ends the search *)
IsGoal(current_node, goal_node_name) == current_node.name = goal_node_name

(* a slip: an empty list for "no path" *)
ExhaustedEmptyList == PathOf(<<>>)

(* what dijkstra returns when open_set is empty *)
Exhausted == NoPath

-----------------------------------------------------------------------------
(* main: what it reads from a path and what it prints *)

(* path[-k]; an index out of range raises IndexError *)
HasFromEnd(list, k) == Len(list) >= k

FromEnd(list, k) == list[Len(list) - k + 1]

(* the lines "Ville de depart", "Depart a", "Ville d'arrivee", "Arrivee a" and
   "Temps prevu" of one journey; candidate and index tell which premier node and
   which element of Liste it was printed for *)
Journey(departure_node, arrival_node, train_number, total_time, items, candidate, index) ==
    [ville_depart |-> departure_node.name,
     depart_time |-> departure_node.departure_time,
     depart_date |-> departure_node.departure_date,
     train |-> train_number,
     ville_arrivee |-> arrival_node.name,
     arrive_time |-> arrival_node.arrival_time,
     arrive_date |-> arrival_node.arrival_date,
     total_time |-> total_time,
     path |-> items,
     candidate |-> candidate,
     index |-> index]

(* lines 448-455: the smallest number > 0 of L, None when there is none *)
RECURSIVE SmallestPositiveFrom(_, _)
SmallestPositiveFrom(numbers, smallest_positive) ==
    IF numbers = <<>> THEN smallest_positive
    ELSE LET number == Head(numbers)
         IN IF number > 0 /\ (smallest_positive = None \/ number < smallest_positive[1])
            THEN SmallestPositiveFrom(Tail(numbers), <<number>>)
            ELSE SmallestPositiveFrom(Tail(numbers), smallest_positive)

(* a slip: the test "number > 0" left out *)
RECURSIVE SmallestFrom(_, _)
SmallestFrom(numbers, smallest) ==
    IF numbers = <<>> THEN smallest
    ELSE LET number == Head(numbers)
         IN IF smallest = None \/ number < smallest[1]
            THEN SmallestFrom(Tail(numbers), <<number>>)
            ELSE SmallestFrom(Tail(numbers), smallest)

SmallestOfAll(numbers) == SmallestFrom(numbers, None)

SmallestPositive(numbers) == SmallestPositiveFrom(numbers, None)

(* "smallest_positive in sous_liste": sous_liste is a path with its score appended;
   a Node equals neither a number nor None, the score equals only its own value *)
InSousListe(smallest_positive, sous_liste) ==
    smallest_positive # None /\ sous_liste.temps = smallest_positive[1]

(* lines 458-463: the first i with smallest_positive in Liste[i], as <<i>>; None
   when the loop ends without binding index *)
FirstIndex(liste, smallest_positive) ==
    LET hits == { i \in 1..Len(liste) : InSousListe(smallest_positive, liste[i]) }
    IN IF hits = {} THEN None
       ELSE <<CHOOSE i \in hits : \A j \in hits : i <= j>>

-----------------------------------------------------------------------------
(* Bounds and inputs *)

MaxConns == 3

Timetables == { t \in SUBSET Catalogue : Cardinality(t) <= MaxConns }

DepartureDates == {D3105, D0106}

DepartureTimes == {HM(8, 0), HM(8, 30)}

ArrivalTimes == {HM(10, 0), HM(11, 0), HM(12, 0)}

Midnight == HM(0, 0)

(* get_user_input: modes 'facile' and 'normal' as returned at lines 240, 252 and
   256; 'dijkstra' stands for a call of dijkstra with the given instant *)
UserInputs ==
    { [mode |-> m, mode_choice2 |-> "", start_node_name |-> s, goal_node_name |-> g,
       departure_date |-> d, departure_time |-> t, arrival_time_mode |-> Midnight] :
        m \in {"dijkstra"}, s \in Stations, g \in Stations,
        d \in DepartureDates, t \in DepartureTimes }
    \cup
    { [mode |-> "facile", mode_choice2 |-> "", start_node_name |-> s,
       goal_node_name |-> g, departure_date |-> d, departure_time |-> Midnight,
       arrival_time_mode |-> Midnight] :
        s \in Stations, g \in Stations, d \in DepartureDates }
    \cup
    { [mode |-> "normal", mode_choice2 |-> "1", start_node_name |-> s,
       goal_node_name |-> g, departure_date |-> d, departure_time |-> t,
       arrival_time_mode |-> Midnight] :
        s \in Stations, g \in Stations, d \in DepartureDates, t \in DepartureTimes }
    \cup
    { [mode |-> "normal", mode_choice2 |-> "2", start_node_name |-> s,
       goal_node_name |-> g, departure_date |-> d, departure_time |-> Midnight,
       arrival_time_mode |-> a] :
        s \in Stations, g \in Stations, d \in DepartureDates, a \in ArrivalTimes }

(* the variables of mode 'tour_de_france' before line 493 binds them *)
NoTour == [current_city |-> None, current_date |-> None, i |-> 0, etapes |-> <<>>]

NoArgs == [departure_date |-> None, departure_time |-> None,
           arrival_date |-> None, arrival_time |-> None]

Init ==
    /\ store \in Timetables
    /\ scan_desc \in BOOLEAN
    /\ user_input \in UserInputs
    /\ pc = "main"
    /\ premier_nodes = <<>>
    /\ cand = 0
    /\ nodes = <<>>
    /\ open_set = <<>>
    /\ closed_set = {}
    /\ path = NoPath
    /\ Liste = <<>>
    /\ L = <<>>
    /\ reported = <<>>
    /\ failed = <<>>
    /\ outcome = "running"
    /\ dur_args = NoArgs
    /\ dur_result = None
    /\ calls = <<>>
    /\ tour = NoTour

ByDeparture == user_input.mode = "facile"
               \/ (user_input.mode = "normal" /\ user_input.mode_choice2 = "1")

ByArrival == user_input.mode = "normal" /\ user_input.mode_choice2 = "2"

-----------------------------------------------------------------------------
(* Actions *)

(* lines 353 and 388, with the tests "if premier_nodes:" of lines 355, 390, 428 *)
GetPremierNodes ==
    /\ pc = "main"
    /\ user_input.mode \in {"facile", "normal"}
    /\ premier_nodes' = get_premiernodes(store, scan_desc, user_input.start_node_name,
                            user_input.departure_date, user_input.departure_time)
    /\ IF premier_nodes' # <<>>
       THEN pc' = "loop" /\ cand' = 1 /\ outcome' = outcome
       ELSE IF ByArrival
       THEN pc' = "select" /\ cand' = cand /\ outcome' = outcome
       ELSE pc' = "done" /\ cand' = cand /\ outcome' = "NotFound"
    /\ UNCHANGED <<store, scan_desc, user_input, nodes, open_set, closed_set, path,
                   Liste, L, reported, failed, dur_args, dur_result, calls, tour>>

(* a slip: the closed set of the call before kept *)
KeptClosedSet == closed_set

(* line 184: closed_set = set(), a new one in every call *)
NewClosedSet == {}

(* lines 183-189, entered from the calls of lines 358, 394 and 431 *)
DijkstraCall ==
    /\ pc = "loop"
    /\ cand <= Len(premier_nodes)
    /\ LET premier_node == premier_nodes[cand]
           start_node == StartNode(user_input.start_node_name,
                             premier_node.departure_date, premier_node.departure_time,
                             premier_node.arrival_date, premier_node.arrival_time)
       IN /\ nodes' = <<start_node>>
          /\ open_set' = <<1>>
          /\ closed_set' = NewClosedSet
    /\ pc' = "dijkstra"
    /\ UNCHANGED <<store, scan_desc, user_input, premier_nodes, cand, path, Liste, L,
                   reported, failed, outcome, dur_args, dur_result, calls, tour>>

(* lines 183-189, entered with the instant the caller gives *)
DijkstraDirect ==
    /\ pc = "main"
    /\ user_input.mode = "dijkstra"
    /\ nodes' = <<StartNode(user_input.start_node_name, user_input.departure_date,
                            user_input.departure_time, None, None)>>
    /\ open_set' = <<1>>
    /\ closed_set' = NewClosedSet
    /\ pc' = "dijkstra"
    /\ UNCHANGED <<store, scan_desc, user_input, premier_nodes, cand, path, Liste, L,
                   reported, failed, outcome, dur_args, dur_result, calls, tour>>

MaxCalls == 2

(* dijkstra called once more with the same arguments on the same timetable: the
   caller keeps what the call before returned; the callee starts at lines
   183-189 again. The database is free to return rows of equal sort keys in
   another order than before. *)
DijkstraAgain ==
    /\ pc = "done"
    /\ user_input.mode = "dijkstra"
    /\ Len(calls) + 1 < MaxCalls
    /\ calls' = Append(calls, path)
    /\ scan_desc' \in BOOLEAN
    /\ nodes' = <<StartNode(user_input.start_node_name, user_input.departure_date,
                            user_input.departure_time, None, None)>>
    /\ open_set' = <<1>>
    /\ closed_set' = NewClosedSet
    /\ pc' = "dijkstra"
    /\ UNCHANGED <<store, user_input, premier_nodes, cand, path, Liste, L,
                   reported, failed, outcome, dur_args, dur_result, tour>>

(* a slip: the loop not left on return *)
NotReturned == "dijkstra"

(* where the caller goes on when dijkstra returns *)
Returned == IF user_input.mode = "dijkstra" THEN "done" ELSE "returned"

(* the goal_node_name the running call of dijkstra was given: goal_city in mode
   'tour_de_france' (line 507) *)
GoalName ==
    IF user_input.mode = "tour_de_france"
    THEN user_input.intermediate_cities[tour.i + 1]
    ELSE user_input.goal_node_name

(* lines 191-222: one turn of "while open_set" *)
DijkstraIter ==
    /\ pc = "dijkstra"
    /\ open_set # <<>>
    /\ LET i == MinOpen(nodes, open_set)
           current == open_set[i]
           current_node == nodes[current]
           rest == RemoveAt(open_set, i)
       IN IF IsGoal(current_node, GoalName)
          THEN /\ path' = PathOf(BuildPath(nodes, current))
               /\ open_set' = rest
               /\ pc' = Returned
               /\ UNCHANGED <<nodes, closed_set>>
          ELSE LET closed == closed_set \cup {current_node.name}
                   acc == Expand([nodes |-> nodes, open_set |-> rest], current, closed,
                              get_neighbors(store, scan_desc, current_node.name,
                                  current_node.departure_date,
                                  current_node.departure_time))
               IN /\ closed_set' = closed
                  /\ nodes' = acc.nodes
                  /\ open_set' = acc.open_set
                  /\ UNCHANGED <<path, pc>>
    /\ UNCHANGED <<store, scan_desc, user_input, premier_nodes, cand, Liste, L,
                   reported, failed, outcome, dur_args, dur_result, calls, tour>>

(* line 224: open_set is empty *)
DijkstraNoPath ==
    /\ pc = "dijkstra"
    /\ open_set = <<>>
    /\ path' = Exhausted
    /\ pc' = Returned
    /\ UNCHANGED <<store, scan_desc, user_input, premier_nodes, cand, nodes, open_set,
                   closed_set, Liste, L, reported, failed, outcome, dur_args, dur_result, calls, tour>>

(* lines 359-380: mode 'facile', one premier node's path *)
FacileBody ==
    /\ pc = "returned"
    /\ user_input.mode = "facile"
    /\ LET premier_node == premier_nodes[cand]
       IN IF Truthy(path)
          THEN IF HasFromEnd(path.items, 2)
               THEN LET departure_node == path.items[1]
                        arrival_node == FromEnd(path.items, 2)
                    IN /\ reported' = Append(reported,
                                         Journey(departure_node, arrival_node,
                                                 premier_node.train_number, None,
                                                 path.items, cand, 0))
                       /\ pc' = "loop" /\ cand' = cand + 1
                       /\ UNCHANGED <<failed, outcome>>
               ELSE /\ pc' = "crashed" /\ outcome' = "IndexError"
                    /\ UNCHANGED <<reported, failed, cand>>
          ELSE /\ failed' = Append(failed, premier_node.train_number)
               /\ pc' = "loop" /\ cand' = cand + 1
               /\ UNCHANGED <<reported, outcome>>
    /\ UNCHANGED <<store, scan_desc, user_input, premier_nodes, nodes, open_set,
                   closed_set, path, Liste, L, dur_args, dur_result, calls, tour>>

(* lines 395-420: mode 'normal' by departure time, one premier node's path *)
NormalDepartBody ==
    /\ pc = "returned"
    /\ user_input.mode = "normal" /\ user_input.mode_choice2 = "1"
    /\ LET premier_node == premier_nodes[cand]
       IN IF Truthy(path)
          THEN IF HasFromEnd(path.items, 2)
               THEN LET departure_node == path.items[1]
                        arrival_node == FromEnd(path.items, 2)
                        total_time == calculate_total_time(
                                          departure_node.departure_date,
                                          departure_node.departure_time,
                                          arrival_node.arrival_date,
                                          arrival_node.arrival_time)
                    IN /\ reported' = Append(reported,
                                         Journey(departure_node, arrival_node,
                                                 premier_node.train_number,
                                                 <<total_time>>, path.items, cand, 0))
                       /\ pc' = "loop" /\ cand' = cand + 1
                       /\ UNCHANGED <<failed, outcome>>
               ELSE /\ pc' = "crashed" /\ outcome' = "IndexError"
                    /\ UNCHANGED <<reported, failed, cand>>
          ELSE /\ failed' = Append(failed, premier_node.train_number)
               /\ pc' = "loop" /\ cand' = cand + 1
               /\ UNCHANGED <<reported, outcome>>
    /\ UNCHANGED <<store, scan_desc, user_input, premier_nodes, nodes, open_set,
                   closed_set, path, Liste, L, dur_args, dur_result, calls, tour>>

(* line 438: the score of a path, from the date the user gave, the arrival time
   of path[-2] and the arrival time the user wants *)
Temps(departure_date, arrival_node, arrival_time_mode) ==
    calculate_total_time(departure_date, arrival_node.arrival_time,
                         departure_date, arrival_time_mode)

(* lines 432-445: mode 'normal' by arrival time, one premier node's path *)
NormalArriveBody ==
    /\ pc = "returned"
    /\ ByArrival
    /\ LET premier_node == premier_nodes[cand]
       IN IF Truthy(path)
          THEN IF HasFromEnd(path.items, 2)
               THEN LET arrival_node == FromEnd(path.items, 2)
                        temps == Temps(user_input.departure_date, arrival_node,
                                       user_input.arrival_time_mode)
                    IN /\ Liste' = Append(Liste, [items |-> path.items,
                                                  temps |-> temps,
                                                  candidate |-> cand])
                       /\ L' = Append(L, temps)
                       /\ pc' = "loop" /\ cand' = cand + 1
                       /\ UNCHANGED <<failed, outcome>>
               ELSE /\ pc' = "crashed" /\ outcome' = "IndexError"
                    /\ UNCHANGED <<Liste, L, failed, cand>>
          ELSE /\ failed' = Append(failed, premier_node.train_number)
               /\ pc' = "loop" /\ cand' = cand + 1
               /\ UNCHANGED <<Liste, L, outcome>>
    /\ UNCHANGED <<store, scan_desc, user_input, premier_nodes, nodes, open_set,
                   closed_set, path, reported, dur_args, dur_result, calls, tour>>

(* the end of "for premier_node in premier_nodes" *)
LoopEnd ==
    /\ pc = "loop"
    /\ cand > Len(premier_nodes)
    /\ IF ByArrival
       THEN pc' = "select" /\ outcome' = outcome
       ELSE pc' = "done" /\ outcome' = "Finished"
    /\ UNCHANGED <<store, scan_desc, user_input, premier_nodes, cand, nodes, open_set,
                   closed_set, path, Liste, L, reported, failed, dur_args, dur_result, calls, tour>>

(* lines 446-490: mode 'normal' by arrival time, the choice among the paths *)
NormalArriveSelect ==
    /\ pc = "select"
    /\ IF L # <<>>
       THEN LET smallest_positive == SmallestPositive(L)
                index == FirstIndex(Liste, smallest_positive)
            IN IF index = None
               THEN /\ pc' = "crashed" /\ outcome' = "UnboundLocalError"
                    /\ UNCHANGED reported
               ELSE LET min_path == Liste[index[1]]
                        departure_node == min_path.items[1]
                        arrival_node == FromEnd(min_path.items, 2)
                        premier_node == premier_nodes[Len(premier_nodes)]
                        total_time == calculate_total_time(
                                          departure_node.departure_date,
                                          departure_node.departure_time,
                                          arrival_node.arrival_date,
                                          arrival_node.arrival_time)
                    IN /\ reported' = Append(reported,
                                         Journey(departure_node, arrival_node,
                                                 premier_node.train_number,
                                                 <<total_time>>, min_path.items,
                                                 min_path.candidate, index[1]))
                       /\ pc' = "done" /\ outcome' = "Selected"
       ELSE /\ pc' = "done" /\ outcome' = "NotFound"
            /\ UNCHANGED reported
    /\ UNCHANGED <<store, scan_desc, user_input, premier_nodes, cand, nodes, open_set,
                   closed_set, path, Liste, L, failed, dur_args, dur_result, calls, tour>>

Next ==
    \/ GetPremierNodes
    \/ DijkstraCall
    \/ DijkstraDirect
    \/ DijkstraAgain
    \/ DijkstraIter
    \/ DijkstraNoPath
    \/ FacileBody
    \/ NormalDepartBody
    \/ NormalArriveBody
    \/ LoopEnd
    \/ NormalArriveSelect

Spec == Init /\ [][Next]_vars

-----------------------------------------------------------------------------
(* Mode 'tour_de_france': the stages from one city to the next of the list the
   user gave *)

MaxEtapes == 2

TourInputs ==
    { [mode |-> "tour_de_france", start_node_name |-> s, intermediate_cities |-> c,
       start_date |-> d] :
        s \in Stations,
        c \in UNION { [1..n -> Stations] : n \in 1..MaxEtapes },
        d \in DepartureDates }

(* (strptime(date, "%d/%m/%Y") + timedelta(days=1)).strftime("%d/%m/%Y") *)
NextDay(date) ==
    IF date[1] < DaysInMonth(date[2], date[3]) THEN DMY(date[1] + 1, date[2], date[3])
    ELSE IF date[2] < 12 THEN DMY(1, date[2] + 1, date[3])
    ELSE DMY(1, 1, date[3] + 1)

(* what one turn of the loop of line 500 printed for its stage *)
Etape(i, goal_city, printed, departure_node, arrival_node, items) ==
    [i |-> i, goal_city |-> goal_city, printed |-> printed,
     departure_node |-> departure_node, arrival_node |-> arrival_node,
     path |-> items]

InitTour ==
    /\ store \in Timetables
    /\ scan_desc \in BOOLEAN
    /\ user_input \in TourInputs
    /\ pc = "main"
    /\ premier_nodes = <<>>
    /\ cand = 0
    /\ nodes = <<>>
    /\ open_set = <<>>
    /\ closed_set = {}
    /\ path = NoPath
    /\ Liste = <<>>
    /\ L = <<>>
    /\ reported = <<>>
    /\ failed = <<>>
    /\ outcome = "running"
    /\ dur_args = NoArgs
    /\ dur_result = None
    /\ calls = <<>>
    /\ tour = NoTour

(* lines 493-497 *)
TourBegin ==
    /\ pc = "main"
    /\ user_input.mode = "tour_de_france"
    /\ tour' = [current_city |-> user_input.start_node_name,
                current_date |-> user_input.start_date,
                i |-> 0, etapes |-> <<>>]
    /\ pc' = "tour"
    /\ UNCHANGED <<store, scan_desc, user_input, premier_nodes, cand, nodes, open_set,
                   closed_set, path, Liste, L, reported, failed, outcome, dur_args,
                   dur_result, calls>>

(* lines 500-509: the premier nodes of the stage; with some, dijkstra is entered
   for the first of them (lines 183-189), with none line 538 prints the failure *)
TourEtape ==
    /\ pc = "tour"
    /\ tour.i < Len(user_input.intermediate_cities)
    /\ LET goal_city == user_input.intermediate_cities[tour.i + 1]
           found == get_premiernodes(store, scan_desc, tour.current_city,
                                     tour.current_date, Midnight)
       IN /\ premier_nodes' = found
          /\ IF found # <<>>
             THEN LET premier_node == found[1]
                  IN /\ nodes' = <<StartNode(tour.current_city,
                                       premier_node.departure_date,
                                       premier_node.departure_time,
                                       premier_node.arrival_date,
                                       premier_node.arrival_time)>>
                     /\ open_set' = <<1>>
                     /\ closed_set' = NewClosedSet
                     /\ cand' = 1
                     /\ pc' = "dijkstra"
                     /\ tour' = tour
             ELSE /\ tour' = [tour EXCEPT
                                 !.i = @ + 1,
                                 !.etapes = Append(@, Etape(tour.i, goal_city,
                                                "Aucun train", None, None, <<>>))]
                  /\ UNCHANGED <<nodes, open_set, closed_set, cand, pc>>
    /\ UNCHANGED <<store, scan_desc, user_input, path, Liste, L, reported, failed,
                   outcome, dur_args, dur_result, calls>>

(* lines 510-536: the path of the stage *)
TourBody ==
    /\ pc = "returned"
    /\ user_input.mode = "tour_de_france"
    /\ LET goal_city == user_input.intermediate_cities[tour.i + 1]
       IN IF Truthy(path)
          THEN IF HasFromEnd(path.items, 2)
               THEN LET departure_node == path.items[1]
                        arrival_node == FromEnd(path.items, 2)
                    IN /\ tour' = [current_city |-> goal_city,
                                   current_date |-> NextDay(arrival_node.arrival_date),
                                   i |-> tour.i + 1,
                                   etapes |-> Append(tour.etapes,
                                                 Etape(tour.i, goal_city, "Etape",
                                                       departure_node, arrival_node,
                                                       path.items))]
                       /\ pc' = "tour"
                       /\ UNCHANGED outcome
               ELSE /\ pc' = "crashed" /\ outcome' = "IndexError"
                    /\ UNCHANGED tour
          ELSE /\ tour' = [tour EXCEPT
                              !.i = @ + 1,
                              !.etapes = Append(@, Etape(tour.i, goal_city,
                                             "Aucun chemin", None, None, <<>>))]
               /\ pc' = "tour"
               /\ UNCHANGED outcome
    /\ UNCHANGED <<store, scan_desc, user_input, premier_nodes, cand, nodes, open_set,
                   closed_set, path, Liste, L, reported, failed, dur_args, dur_result,
                   calls>>

(* the end of "for i in range(len(intermediate_cities))" *)
TourEnd ==
    /\ pc = "tour"
    /\ tour.i >= Len(user_input.intermediate_cities)
    /\ pc' = "done"
    /\ outcome' = "Finished"
    /\ UNCHANGED <<store, scan_desc, user_input, premier_nodes, cand, nodes, open_set,
                   closed_set, path, Liste, L, reported, failed, dur_args, dur_result,
                   calls, tour>>

NextTour ==
    \/ TourBegin
    \/ TourEtape
    \/ DijkstraIter
    \/ DijkstraNoPath
    \/ TourBody
    \/ TourEnd

SpecTour == InitTour /\ [][NextTour]_vars

-----------------------------------------------------------------------------
(* The duration calculator on its own: calculate_duration applied to four
   arguments drawn from the dates and times below. *)

DurationDates == {D3105, D0106, D0206}

DurationTimes == {None, HM(0, 20), HM(8, 30), HM(10, 15), HM(23, 50)}

InitDuration ==
    /\ dur_args \in [departure_date : DurationDates, departure_time : DurationTimes,
                     arrival_date : DurationDates, arrival_time : DurationTimes]
    /\ dur_result = None
    /\ calls = <<>>
    /\ tour = NoTour
    /\ pc = "duration"
    /\ store = {}
    /\ scan_desc = FALSE
    /\ user_input = [mode |-> "duration"]
    /\ premier_nodes = <<>>
    /\ cand = 0
    /\ nodes = <<>>
    /\ open_set = <<>>
    /\ closed_set = {}
    /\ path = NoPath
    /\ Liste = <<>>
    /\ L = <<>>
    /\ reported = <<>>
    /\ failed = <<>>
    /\ outcome = "running"

CalculateDuration ==
    /\ pc = "duration"
    /\ dur_result' = <<calculate_duration(dur_args.departure_date,
                           dur_args.departure_time, dur_args.arrival_date,
                           dur_args.arrival_time)>>
    /\ pc' = "done"
    /\ UNCHANGED <<dur_args, search_vars>>

NextDuration == CalculateDuration

SpecDuration == InitDuration /\ [][NextDuration]_vars

-----------------------------------------------------------------------------
(* The choice by arrival time on its own: main at line 446, after the loop over
   the premier nodes, with the lists Liste and L that loop has built. Every
   premier node left PARIS for RENNES and found its path on the late train 8005;
   its arrival time is drawn from ScoreArrivals, which for the arrival wanted at
   12:00 gives the scores 45, -10, 12, 90 and 0. The timetable is not read after
   the loop and is left out. *)

MaxCandidates == 4

ScoreArrivals == {HM(11, 15), HM(12, 10), HM(11, 48), HM(10, 30), HM(12, 0)}

Noon == HM(12, 0)

ArrivalLists ==
    UNION { [1..n -> ScoreArrivals] : n \in 1..MaxCandidates }

(* the i-th premier node, leaving at (5 + i):00 and arriving at the time given *)
PremierAt(i, arrival_time) ==
    Node(PARIS, D0106, HM(5 + i, 0), D0106, arrival_time, "9000")

(* the path dijkstra returns for a premier node when only the late train leaves
   after it *)
LatePath(premier_node) ==
    LET start_node == StartNode(PARIS, premier_node.departure_date,
                          premier_node.departure_time, premier_node.arrival_date,
                          premier_node.arrival_time)
        late == [Node(RENNES, D0106, HM(23, 50), D0106, HM(0, 20), "8005")
                     EXCEPT !.parent = 1,
                            !.distance = TentativeDistance(start_node.distance,
                                calculate_duration(start_node.departure_date,
                                    start_node.departure_time, D0106, HM(0, 20)))]
    IN <<start_node, late>>

InitSelect ==
    /\ \E arrivals \in ArrivalLists :
           /\ premier_nodes = [i \in 1..Len(arrivals) |-> PremierAt(i, arrivals[i])]
           /\ Liste = [i \in 1..Len(arrivals) |->
                          [items |-> LatePath(PremierAt(i, arrivals[i])),
                           temps |-> Temps(D0106,
                                           FromEnd(LatePath(PremierAt(i, arrivals[i])), 2),
                                           Noon),
                           candidate |-> i]]
           /\ L = [i \in 1..Len(arrivals) |->
                      Temps(D0106, FromEnd(LatePath(PremierAt(i, arrivals[i])), 2), Noon)]
           /\ cand = Len(arrivals) + 1
    /\ user_input = [mode |-> "normal", mode_choice2 |-> "2",
                     start_node_name |-> PARIS, goal_node_name |-> RENNES,
                     departure_date |-> D0106, departure_time |-> Midnight,
                     arrival_time_mode |-> Noon]
    /\ pc = "select"
    /\ store = {}
    /\ scan_desc = FALSE
    /\ nodes = <<>>
    /\ open_set = <<>>
    /\ closed_set = {}
    /\ path = NoPath
    /\ reported = <<>>
    /\ failed = <<>>
    /\ outcome = "running"
    /\ dur_args = NoArgs
    /\ dur_result = None
    /\ calls = <<>>
    /\ tour = NoTour

NextSelect == NormalArriveSelect

SpecSelect == InitSelect /\ [][NextSelect]_vars

-----------------------------------------------------------------------------
(* Properties of the duration calculator (SpecDuration) *)

Computed == pc = "done" /\ dur_result # None

BothTimes == dur_args.departure_time # None /\ dur_args.arrival_time # None

(* C1: with both times present, calculate_duration returns a value >= 0, also
   when the arrival time is earlier than the departure time on the same stored
   date and when the stored arrival date precedes the departure date. *)
C1_DurationNonNegative ==
    (Computed /\ BothTimes) => dur_result[1] >= 0

(* C2: when the stored arrival date equals the departure date and the arrival
   time is earlier than the departure time, the arrival is taken one day later:
   the result is (arrival + 1 day - departure) in minutes, +30 for 23:50 to
   00:20. *)
C2_OvernightAdvanced ==
    ( /\ Computed /\ BothTimes
      /\ dur_args.arrival_date = dur_args.departure_date
      /\ StrLess(dur_args.arrival_time, dur_args.departure_time) )
    => dur_result[1] =
           (Strptime(dur_args.arrival_date, dur_args.arrival_time) + Days(1))
           - Strptime(dur_args.departure_date, dur_args.departure_time)

-----------------------------------------------------------------------------
(* Properties of the search and of the journey modes (Spec) *)

Ended == pc \in {"done", "crashed"}

(* a complete relation of the timetable as a pair of instants *)
DepartureOf(r) == Strptime(r.datedepart, r.hdepart)

ArrivalOf(r) == Strptime(r.datearrive, r.harrive)

(* the sum of calculate_duration over the legs of a path: each from the date and
   time its parent node is expanded with to the arrival of the leg's connection *)
RECURSIVE LegSum(_)
LegSum(items) ==
    IF Len(items) < 2 THEN 0
    ELSE LET n == Len(items)
         IN LegSum(SubSeq(items, 1, n - 1))
            + calculate_duration(items[n - 1].departure_date,
                                 items[n - 1].departure_time,
                                 items[n].arrival_date, items[n].arrival_time)

(* C3: the timetable holds one connection, from the departure station to the
   arrival station, leaving on the date given strictly after the time given and
   arriving later on the same date: the journey by departure time reports a path
   of two nodes and a total time of arrival minus departure (105 minutes for
   PARIS MONTPARNASSE to RENNES, 08:30 to 10:15, asked from 08:00). *)
C3_SingleConnectionJourney ==
    \A c \in store :
        ( /\ Ended
          /\ user_input.mode = "normal" /\ user_input.mode_choice2 = "1"
          /\ store = {c}
          /\ ~Incomplete(c)
          /\ c.origin = user_input.start_node_name
          /\ c.dest = user_input.goal_node_name
          /\ DepartureOf(c) > Strptime(user_input.departure_date,
                                       user_input.departure_time)
          /\ c.datedepart = user_input.departure_date
          /\ c.datearrive = c.datedepart
          /\ ArrivalOf(c) > DepartureOf(c) )
        => /\ Len(reported) = 1
           /\ Len(reported[1].path) = 2
           /\ reported[1].total_time = <<ArrivalOf(c) - DepartureOf(c)>>

(* C4: in every path dijkstra returns, the first node has distance 0 and the
   distance of the last node is the sum of calculate_duration over the legs. *)
C4_CostIsSumOfLegs ==
    Truthy(path) =>
        /\ path.items[1].distance = Fin(0)
        /\ path.items[Len(path.items)].distance = Fin(LegSum(path.items))

C4_Witness ==
    /\ Truthy(path)
    /\ Len(path.items) >= 3
    /\ path.items[2].distance # Fin(0)
    /\ path.items[Len(path.items)].distance # Fin(0)

(* the state in which a call of dijkstra has just returned *)
DijkstraReturned ==
    \/ pc = "returned"
    \/ pc = "done" /\ user_input.mode = "dijkstra"

(* C5: dijkstra from a station to itself returns the path of the start node
   alone, distance 0, having expanded no station and kept no other node. *)
C5_SelfPathIsTrivial ==
    (DijkstraReturned /\ user_input.start_node_name = user_input.goal_node_name)
    => /\ path.kind = "list"
       /\ Len(path.items) = 1
       /\ path.items[1].name = user_input.start_node_name
       /\ path.items[1].distance = Fin(0)
       /\ path.items[1].parent = 0
       /\ closed_set = {}
       /\ nodes = path.items

C5_Witness ==
    /\ pc = "done" /\ user_input.mode = "dijkstra"
    /\ user_input.start_node_name = user_input.goal_node_name
    /\ get_neighbors(store, scan_desc, user_input.start_node_name,
                     user_input.departure_date, user_input.departure_time) # <<>>
    /\ Len(path.items) = 1

(* C6: when the query returns no connection for the departure station, which is
   not the arrival station, dijkstra returns None (not an empty list) and the
   modes by departure print "Aucun train trouve" and no journey. *)
C6_NoConnectionNotFound ==
    /\ ( /\ pc = "done" /\ user_input.mode = "dijkstra"
         /\ user_input.start_node_name # user_input.goal_node_name
         /\ get_neighbors(store, scan_desc, user_input.start_node_name,
                user_input.departure_date, user_input.departure_time) = <<>> )
       => path = NoPath
    /\ ( /\ Ended /\ ByDeparture
         /\ user_input.start_node_name # user_input.goal_node_name
         /\ get_premiernodes(store, scan_desc, user_input.start_node_name,
                user_input.departure_date, user_input.departure_time) = <<>> )
       => (pc = "done" /\ outcome = "NotFound" /\ reported = <<>>)

C6_Witness ==
    /\ pc = "done" /\ user_input.mode = "dijkstra"
    /\ user_input.start_node_name # user_input.goal_node_name
    /\ \E r \in store : r.origin = user_input.start_node_name
    /\ get_neighbors(store, scan_desc, user_input.start_node_name,
                     user_input.departure_date, user_input.departure_time) = <<>>
    /\ path = NoPath

(* the premier nodes are in ascending order of departure, and Liste holds the
   paths found in the order of their premier nodes *)
InDepartureOrder ==
    /\ \A a, b \in 1..Len(premier_nodes) :
           a < b => Strptime(premier_nodes[a].departure_date,
                             premier_nodes[a].departure_time)
                    <= Strptime(premier_nodes[b].departure_date,
                                premier_nodes[b].departure_time)
    /\ \A a, b \in 1..Len(Liste) : a < b => Liste[a].candidate < Liste[b].candidate

(* C7: by arrival time, the path chosen among those found has the smallest score
   that is > 0; a path with a score <= 0 is never chosen; of several paths with
   that smallest score the one of the earliest departure is chosen. *)
C7_SmallestPositiveScoreChosen ==
    (ByArrival /\ outcome = "Selected")
    => /\ Len(reported) = 1
       /\ Len(L) = Len(Liste)
       /\ InDepartureOrder
       /\ LET index == reported[1].index
          IN /\ index \in 1..Len(L)
             /\ reported[1].path = Liste[index].items
             /\ reported[1].candidate = Liste[index].candidate
             /\ Liste[index].temps = L[index]
             /\ L[index] > 0
             /\ \A k \in 1..Len(L) : L[k] > 0 => L[index] <= L[k]
             /\ \A k \in 1..(index - 1) : L[k] # L[index]

(* the scores 45, -10, 12, 90: the third path, of score 12, is chosen *)
C7_Witness ==
    /\ ByArrival /\ outcome = "Selected"
    /\ L = <<45, -10, 12, 90>>
    /\ reported[1].index = 3
    /\ reported[1].candidate = 3

(* C8: by arrival time, when paths were found and none has a score > 0, the mode
   ends with "Aucun train trouve": no path is chosen and no error is raised. *)
C8_NoPositiveScoreNotFound ==
    (Ended /\ ByArrival /\ L # <<>> /\ \A k \in 1..Len(L) : L[k] <= 0)
    => (pc = "done" /\ outcome = "NotFound" /\ reported = <<>>)

(* C9: by departure time, the journey reported is that of the first premier node
   whose search finds a path; the premier nodes after it add no journey to the
   result and replace none. *)
C9_FirstSuccessOnlyReported ==
    (ByDeparture /\ reported # <<>>)
    => /\ Len(reported) = 1
       /\ Len(failed) >= reported[1].candidate - 1

(* C10: a journey reported names the arrival station asked for and the arrival
   date and time of the connection that reaches the last node of its path; its
   total time is calculate_total_time from the first departure to that arrival. *)
C10_SummaryOfLastLeg ==
    \A i \in 1..Len(reported) :
        LET journey == reported[i]
            last == journey.path[Len(journey.path)]
        IN /\ journey.ville_arrivee = user_input.goal_node_name
           /\ journey.arrive_date = last.arrival_date
           /\ journey.arrive_time = last.arrival_time
           /\ journey.total_time # None =>
                  journey.total_time =
                      <<calculate_total_time(journey.depart_date, journey.depart_time,
                                             last.arrival_date, last.arrival_time)>>

(* the instant at which a path reaches its last node: the arrival of the
   connection that node was made from *)
LastArrival(items) ==
    Strptime(items[Len(items)].arrival_date, items[Len(items)].arrival_time)

(* the arrival the user wants, on the date the user gave *)
DesiredArrival == Strptime(user_input.departure_date, user_input.arrival_time_mode)

(* C11: by arrival time, a path that reaches its last node after the arrival
   wanted (later that day or on a later date) has a score <= 0, and the path
   chosen does not reach the arrival station after the arrival wanted. *)
C11_NeverAfterDesiredArrival ==
    ByArrival =>
        /\ \A k \in 1..Len(Liste) :
               LastArrival(Liste[k].items) > DesiredArrival => L[k] <= 0
        /\ outcome = "Selected" => LastArrival(reported[1].path) <= DesiredArrival

(* C12: a call of dijkstra, or a journey mode, ends with a path found (and the
   journeys printed) or with "not found", for every pair of stations, equal ones
   included, and every timetable: none ends in an exception that is not caught. *)
C12_NoUnhandledException ==
    /\ pc # "crashed"
    /\ outcome \notin {"IndexError", "UnboundLocalError"}

(* day_difference of the arguments given: arrival date minus departure date *)
DayDifference == ToOrdinal(dur_args.arrival_date) - ToOrdinal(dur_args.departure_date)

(* C13: with day_difference >= 0, calculate_duration never returns more than
   day_difference x 1440 minutes, and returns exactly that when the arrival is
   later than the departure plus day_difference days (0 for an arrival on the
   date of the departure, after its time). *)
C13_ClampedToDayDifference ==
    (Computed /\ BothTimes /\ DayDifference >= 0)
    => /\ dur_result[1] <= DayDifference * 1440
       /\ ( Strptime(dur_args.arrival_date, dur_args.arrival_time)
              > Strptime(dur_args.departure_date, dur_args.departure_time)
                + (DayDifference * 1440) )
          => dur_result[1] = DayDifference * 1440

(* an arrival the day after, later in the day than the departure: 1440 *)
C13_Witness ==
    /\ Computed /\ BothTimes
    /\ DayDifference = 1
    /\ StrLess(dur_args.departure_time, dur_args.arrival_time)
    /\ dur_result = <<1440>>

(* dijkstra has expanded the start node and nothing else: nodes holds, after the
   start node, the neighbors get_neighbors yielded for it, in their order *)
FirstExpansion ==
    /\ user_input.mode = "dijkstra"
    /\ pc = "dijkstra"
    /\ closed_set = {user_input.start_node_name}

(* a Node as get_neighbors makes it, before dijkstra sets parent and distance *)
AsYielded(node) == [node EXCEPT !.parent = 0, !.distance = Inf]

(* C14: get_neighbors yields every complete relation leaving the station whose
   departure (date and time together) is at or after the instant given, and no
   other - one of a later date and an earlier time of day included - in ascending
   order of departure. *)
C14_DeparturesFromInstant ==
    FirstExpansion =>
        LET not_before == Strptime(user_input.departure_date, user_input.departure_time)
            expected == { r \in store : /\ r.origin = user_input.start_node_name
                                        /\ ~Incomplete(r)
                                        /\ DepartureOf(r) >= not_before }
            yielded == SubSeq(nodes, 2, Len(nodes))
        IN /\ Len(yielded) = Cardinality(expected)
           /\ { AsYielded(yielded[i]) : i \in 1..Len(yielded) }
              = { Node(r.dest, r.datedepart, r.hdepart, r.datearrive, r.harrive,
                       r.numtrain) : r \in expected }
           /\ \A a, b \in 1..Len(yielded) :
                  a < b => Strptime(yielded[a].departure_date, yielded[a].departure_time)
                           <= Strptime(yielded[b].departure_date, yielded[b].departure_time)

(* the stations of a path, in order *)
StationsOf(p) == [i \in 1..Len(p.items) |-> p.items[i].name]

(* the distance of the last node of a path found; None when none was found *)
TotalCost(p) == IF Truthy(p) THEN p.items[Len(p.items)].distance ELSE None

(* a later call of dijkstra with the same arguments has returned *)
CalledAgain == pc = "done" /\ user_input.mode = "dijkstra" /\ calls # <<>>

(* C15: two calls of dijkstra with the same stations and the same instant on an
   unchanged timetable return paths of the same stations and the same total
   distance, or both return None: nothing of the first call reaches the second. *)
C15_SameResultWhenCalledAgain ==
    CalledAgain =>
        \A k \in 1..Len(calls) :
            /\ calls[k].kind = path.kind
            /\ StationsOf(calls[k]) = StationsOf(path)
            /\ TotalCost(calls[k]) = TotalCost(path)

(* both calls expanded stations and found a path of three nodes *)
C15_Witness ==
    /\ CalledAgain
    /\ Truthy(path)
    /\ Len(path.items) >= 3
    /\ Truthy(calls[1])
    /\ closed_set # {}

-----------------------------------------------------------------------------
(* Properties of mode 'tour_de_france' (SpecTour) *)

(* the last stage for which a path was printed; 0 when there is none *)
LastEtapeDone(etapes) ==
    LET done == { k \in 1..Len(etapes) : etapes[k].printed = "Etape" }
    IN IF done = {} THEN 0 ELSE CHOOSE k \in done : \A j \in done : j <= k

BetweenEtapes == user_input.mode = "tour_de_france" /\ pc \in {"tour", "done"}

(* C16: a stage that fails (no premier node, or no path) leaves current_city
   and current_date as they were and the loop goes on with the next city; only
   a stage that finds a path sets current_city to the city reached and
   current_date to the day after the date the stage arrives there. *)
C16_FailedEtapeChangesNothing ==
    BetweenEtapes =>
        /\ Len(tour.etapes) = tour.i
        /\ LET k == LastEtapeDone(tour.etapes)
           IN IF k = 0
              THEN /\ tour.current_city = user_input.start_node_name
                   /\ tour.current_date = user_input.start_date
              ELSE LET items == tour.etapes[k].path
                   IN /\ tour.current_city = tour.etapes[k].goal_city
                      /\ tour.current_date = NextDay(items[Len(items)].arrival_date)

-----------------------------------------------------------------------------
(* Properties of the expansion of dijkstra (Spec) *)

(* C17: in every path dijkstra returns, each leg after the first leaves its
   station at or after the instant at which the leg before it arrives there. *)
C17_NoDepartureBeforeArrival ==
    Truthy(path) =>
        \A k \in 3..Len(path.items) :
            Strptime(path.items[k].departure_date, path.items[k].departure_time)
            >= Strptime(path.items[k - 1].arrival_date, path.items[k - 1].arrival_time)

(* C18: at every point of a call of dijkstra, open_set holds at most one node
   per station. *)
C18_OneOpenNodePerStation ==
    \A a, b \in 1..Len(open_set) :
        nodes[open_set[a]].name = nodes[open_set[b]].name => a = b

(* C19: within a call of dijkstra a station put into closed_set is never
   expanded again, every station being expanded at most once: the node taken
   next from open_set (which is expanded unless it is of the arrival station,
   never in closed_set) is not of a station of closed_set. *)
C19_ClosedStationNotExpandedAgain ==
    (pc = "dijkstra" /\ open_set # <<>>)
    => nodes[open_set[MinOpen(nodes, open_set)]].name \notin closed_set

-----------------------------------------------------------------------------
(* Journeys of a timetable, and what dijkstra returns among them (Spec) *)

(* the sequences of complete relations of db that lead from station start to
   station goal *)
Chains(db, start, goal) ==
    LET rows == { r \in db : ~Incomplete(r) }
    IN { j \in UNION { [1..n -> rows] : n \in 1..Cardinality(rows) } :
           /\ j[1].origin = start
           /\ j[Len(j)].dest = goal
           /\ \A k \in 1..(Len(j) - 1) : j[k].dest = j[k + 1].origin }

(* the journeys dijkstra is to choose from: the first leg leaves strictly after
   the instant given, every other leg strictly after the instant of the node it
   is taken from, which is the departure of the leg before (line 203) *)
Journeys(db, start, goal, departure_date, departure_time) ==
    { j \in Chains(db, start, goal) :
        /\ DepartureOf(j[1]) > Strptime(departure_date, departure_time)
        /\ \A k \in 1..(Len(j) - 1) : DepartureOf(j[k + 1]) > DepartureOf(j[k]) }

(* the distance dijkstra gives the last node of a journey: the sum over its
   legs of calculate_duration from the instant of the node the leg is taken
   from to the arrival of the leg *)
RECURSIVE JourneyCost(_, _, _)
JourneyCost(j, departure_date, departure_time) ==
    IF j = <<>> THEN 0
    ELSE calculate_duration(departure_date, departure_time,
                            j[1].datearrive, j[1].harrive)
         + JourneyCost(Tail(j), j[1].datedepart, j[1].hdepart)

(* a journey a traveller can make: every relation arrives after it leaves, and
   every leg leaves at or after the arrival of the leg before *)
Feasible(j) ==
    /\ \A k \in 1..Len(j) : ArrivalOf(j[k]) >= DepartureOf(j[k])
    /\ \A k \in 1..(Len(j) - 1) : DepartureOf(j[k + 1]) >= ArrivalOf(j[k])

(* the FIFO property of a timetable: every relation arrives after it leaves,
   and between two stations no journey that leaves later arrives earlier than
   one that leaves earlier *)
FIFO(db) ==
    /\ \A r \in db : ~Incomplete(r) => ArrivalOf(r) >= DepartureOf(r)
    /\ \A a, b \in Stations :
           \A j1, j2 \in { j \in Chains(db, a, b) : Feasible(j) } :
               DepartureOf(j1[1]) <= DepartureOf(j2[1])
               => ArrivalOf(j1[Len(j1)]) <= ArrivalOf(j2[Len(j2)])

(* dijkstra, called with the instant the caller gives, has returned *)
DirectReturned == pc = "done" /\ user_input.mode = "dijkstra"

(* C20: on a timetable with the FIFO property, the path dijkstra returns has the
   smallest total distance of all journeys from the start to the goal station
   that leave after the instant given and in which each leg leaves strictly
   after the instant of the node it is taken from. *)
C20_MinimumCostOnFIFO ==
    (DirectReturned /\ Truthy(path) /\ FIFO(store)) =>
        \A j \in Journeys(store, user_input.start_node_name,
                          user_input.goal_node_name, user_input.departure_date,
                          user_input.departure_time) :
            path.items[Len(path.items)].distance[1]
            <= JourneyCost(j, user_input.departure_date, user_input.departure_time)

(* C21: dijkstra returns None only when there is no journey: if some sequence of
   relations leads from the start to the goal station, the first leaving
   strictly after the instant given and each other strictly after the instant
   of the node it is taken from, dijkstra returns a path. *)
C21_PathWheneverJourneyExists ==
    ( /\ DirectReturned
      /\ Journeys(store, user_input.start_node_name, user_input.goal_node_name,
                  user_input.departure_date, user_input.departure_time) # {} )
    => Truthy(path)

(* the departure a node carries: the instant dijkstra expands it with *)
NodeInstant(node) == Strptime(node.departure_date, node.departure_time)

(* C22: every node dijkstra keeps was made from a relation that leaves strictly
   after the instant of the node expanded, its parent; departures strictly
   increase along every chain of parents and along every path returned. *)
C22_DeparturesStrictlyIncrease ==
    /\ \A id \in 1..Len(nodes) :
           nodes[id].parent # 0
           => NodeInstant(nodes[id]) > NodeInstant(nodes[nodes[id].parent])
    /\ \A k \in 2..Len(path.items) :
           NodeInstant(path.items[k]) > NodeInstant(path.items[k - 1])

(* the query matches a train of the start station that leaves at the very
   instant given or before it; later trains were taken and a path of three nodes
   returned *)
C22_Witness ==
    /\ DirectReturned
    /\ Len(path.items) >= 3
    /\ \E r \in store :
           /\ r.origin = user_input.start_node_name
           /\ ~Incomplete(r)
           /\ DepartureOf(r) <= Strptime(user_input.departure_date,
                                         user_input.departure_time)
           /\ StrGeq(r.datedepart, user_input.departure_date)
           /\ StrGeq(r.hdepart, user_input.departure_time)

(* a Node made from a relation with none of its dates and times missing *)
FromCompleteRelation(node) ==
    /\ node.departure_date # None
    /\ node.departure_time # None
    /\ node.arrival_date # None
    /\ node.arrival_time # None

(* C23: a relation whose departure date, departure time, arrival date or
   arrival time is missing never becomes a premier node, a node of open_set or
   a leg of a path returned; calculate_duration is never given a missing time
   for a leg: the node expanded has its departure time, the neighbor its
   arrival time. *)
C23_IncompleteRelationNeverUsed ==
    /\ \A i \in 1..Len(premier_nodes) : FromCompleteRelation(premier_nodes[i])
    /\ \A id \in 1..Len(nodes) :
           /\ nodes[id].departure_date # None
           /\ nodes[id].departure_time # None
           /\ nodes[id].parent # 0 => FromCompleteRelation(nodes[id])
    /\ \A k \in 2..Len(path.items) : FromCompleteRelation(path.items[k])

(* the query matches a relation of the start station without its arrival date or
   time, leaving after the instant given; the path found goes by another *)
C23_Witness ==
    /\ DirectReturned
    /\ Len(path.items) >= 2
    /\ \E r \in store :
           /\ r.origin = user_input.start_node_name
           /\ r.datedepart # None /\ r.hdepart # None
           /\ Incomplete(r)
           /\ StrGeq(r.datedepart, user_input.departure_date)
           /\ StrGeq(r.hdepart, user_input.departure_time)
           /\ Strptime(r.datedepart, r.hdepart)
              > Strptime(user_input.departure_date, user_input.departure_time)

(* the first leg of a path, items[2], is the train of the premier node: same
   train number, same departure *)
LeavesOn(items, premier_node) ==
    /\ Len(items) >= 2
    /\ items[2].train_number = premier_node.train_number
    /\ NodeInstant(items[2]) = NodeInstant(premier_node)

(* C24: for every premier node whose path main keeps, the path leaves the
   start station by the premier node's own train: the first leg has its train
   number and its departure, so the train and the departure printed for the
   journey are those of the relation taken. *)
C24_JourneyLeavesOnCandidate ==
    /\ \A n \in 1..Len(reported) :
           LeavesOn(reported[n].path, premier_nodes[reported[n].candidate])
    /\ \A n \in 1..Len(Liste) :
           LeavesOn(Liste[n].items, premier_nodes[Liste[n].candidate])

-----------------------------------------------------------------------------
(* Termination of dijkstra *)

(* dijkstra called with the instant the caller gives, on every timetable and
   every input of the bounds *)
InitSearch == Init /\ user_input.mode = "dijkstra"

NextSearch == DijkstraDirect \/ DijkstraIter \/ DijkstraNoPath

(* line 191: "while open_set" runs its body *)
InLoop == pc = "dijkstra" /\ open_set # <<>>

(* The program is one sequential Python process: as long as a statement of
   dijkstra is left to run, the interpreter runs it. This is weak fairness of
   each action. For DijkstraIter it is written out, []<>~ENABLED \/ []<>step,
   with InLoop for ENABLED <<DijkstraIter>>_vars: a turn of the loop is defined
   whenever open_set is not empty, and it changes open_set. *)
SpecSearch ==
    /\ InitSearch
    /\ [][NextSearch]_vars
    /\ WF_vars(DijkstraDirect)
    /\ WF_vars(DijkstraNoPath)
    /\ ([]<>~InLoop \/ []<><<DijkstraIter>>_vars)

(* C25: every call of dijkstra ends: a run inside "while open_set" (lines
   191-222) leads to a return, of the path to a node of the goal station
   (line 200) or of None when open_set is empty (line 224), also on timetables
   where relations lead from a station back to it. *)
C25_DijkstraTerminates == (pc = "dijkstra") ~> (pc = "done")

(* dijkstra has returned after it expanded a node, other than the start node,
   from which a relation of the timetable leads back to the start station *)
C25_Witness ==
    /\ DirectReturned
    /\ \E id \in 2..Len(nodes) :
           LET yielded == get_neighbors(store, scan_desc, nodes[id].name,
                              nodes[id].departure_date, nodes[id].departure_time)
           IN /\ nodes[id].name \in closed_set
              /\ nodes[id].name # user_input.start_node_name
              /\ id \notin Range(open_set)
              /\ \E k \in 1..Len(yielded) :
                     yielded[k].neighbor.name = user_input.start_node_name

====
